---- MODULE Spec2Model ----
(***************************************************************************)
(* Camera session manager of the Raspberry Pi camera plugin                *)
(* (app/api/services/camera_manager.py) as a state machine.                *)
(*                                                                         *)
(* The manager runs on one asyncio event loop: the code between two        *)
(* awaits is atomic, and a coroutine is suspended only at an await that    *)
(* really waits (a thread off-load, an HTTP request, a lock it has to      *)
(* queue for).  A label of pc is therefore an await at which the           *)
(* operation is suspended; one action resumes the operation with the       *)
(* outcome of the awaited call and runs its synchronous code up to the     *)
(* next suspension (operator Run).  While pc[p] names a hardware call,     *)
(* that call is in flight on the worker thread.                            *)
(***************************************************************************)
EXTENDS Integers, Sequences, FiniteSets, TLC

\* ------------------------------------------------------------------ bounds
NumProcs == 2            \* concurrent request / background tasks
MaxOps == 3              \* operations issued in one behaviour
MaxImages == 1           \* image files captured and not yet deleted
MaxTicks == 2            \* advances of the clock in one behaviour

Procs == 1..NumProcs
Handles == 1..(NumProcs + 1)   \* device objects that can be referenced at once
NoHandle == 0
Files == 1..(MaxImages + NumProcs)   \* names of image files (image_id)
NoFile == 0

\* settings (core/config.py), in seconds
hls_ttl_s == 60
image_ttl_s == 3600
max_stream_duration_s == 18000
\* start_streaming: started_at = now - timedelta(seconds=5)
started_at_offset_s == 5
\* the advances of the clock that are distinguished
Durations == {hls_ttl_s, image_ttl_s, max_stream_duration_s - started_at_offset_s,
              max_stream_duration_s}

\* ------------------------------------------------------------------ values
CameraModes == {"PHOTO", "VIDEO"}
StreamModes == {"LOCAL", "YOUTUBE"}
YoutubeConfigs == {"yt1"}
None == "None"

Faults == {"ActiveStreamError", "YoutubeConfigRequiredError", "YouTubeValidationError",
           "LockTimeout", "NoStreamActive", "StreamStartFault", "InfoFault",
           "MetadataFault", "HardwareError", "AttributeError", "HttpError", "FileError"}

\* the faults that are RuntimeError (the others are other subclasses of Exception)
RuntimeErrors == {"LockTimeout", "NoStreamActive", "StreamStartFault", "InfoFault", "MetadataFault"}

\* the HTTP status a router answers with when its call of the manager ends with
\* result res: the status of the HTTPException an except clause of the endpoint
\* raises, 500 for an exception no clause catches, else the endpoint's status_code
router_status(op, res) ==
    CASE op = "capture" -> IF res \in Faults THEN "500" ELSE "201"
      [] op = "open" -> IF res \in Faults THEN "500" ELSE "200"
      [] op = "cleanup" -> IF res = "ActiveStreamError" THEN "409"
                           ELSE IF res \in Faults THEN "500" ELSE "200"
      [] op = "start" ->
            IF res \in {"YoutubeConfigRequiredError", "YouTubeValidationError"} THEN "400"
            ELSE IF res = "ActiveStreamError" THEN "409"
            ELSE IF res \in Faults THEN "500" ELSE "201"
      [] OTHER -> "200"

\* Stream() : every field absent (models/stream.py, class Stream)
EmptyStream == [mode |-> None, url |-> None, started_at |-> None, youtube_config |-> None]

\* Stream.is_active
is_active(st) == st.mode # None

\* get_stream_url(mode, youtube_config)
get_stream_url(mode, cfg) ==
    IF mode = "YOUTUBE" THEN "https://youtube.com/watch?v=" \o cfg
    ELSE "base_url/stream/watch"

\* the requests a task can issue; mode is a CameraMode for open, a StreamMode for
\* start; ttl is the time_to_live_s of a call of clear_directory (0 : None or 0)
NoReq == [op |-> "none", mode |-> None, cfg |-> None, force |-> FALSE, ttl |-> 0]
Requests ==
    [op : {"open"}, mode : CameraModes, cfg : {None}, force : {FALSE}, ttl : {0}]
    \cup [op : {"capture", "stop", "info", "status", "standby", "cleanup_images"},
          mode : {None}, cfg : {None}, force : {FALSE}, ttl : {0}]
    \cup [op : {"start"}, mode : {"LOCAL"}, cfg : {None}, force : {FALSE}, ttl : {0}]
    \cup [op : {"start"}, mode : {"YOUTUBE"}, cfg : YoutubeConfigs \cup {None}, force : {FALSE},
          ttl : {0}]
    \cup [op : {"cleanup"}, mode : {None}, cfg : {None}, force : BOOLEAN, ttl : {0}]

\* clear_directory(path, time_to_live_s=ttl) called on its own
TTLs == {0, hls_ttl_s}
ClearRequests == [op : {"clear_directory"}, mode : {None}, cfg : {None}, force : {FALSE}, ttl : TTLs]

\* a cycle of check_stream_duration
DurationCheck == [op |-> "duration", mode |-> None, cfg |-> None, force |-> FALSE, ttl |-> 0]

NoLast == [p |-> 0, req |-> NoReq, result |-> None, dirty |-> FALSE]

VARIABLES
    camera,        \* CameraManager.camera : NoHandle (None) or the device object
    current_mode,  \* CameraManager.current_mode
    stream,        \* CameraManager.stream
    lock,          \* CameraManager.lock : asyncio.Lock (locked, queue of waiters, head woken)
    hwOpen,        \* device objects that are open (created and not closed)
    hwRec,         \* device objects that are recording
    pc,            \* per task: "idle" or the await at which its operation is suspended
    req,           \* per task: the operation in progress and its arguments
    cam,           \* per task: the device object of the call in flight / local `camera`
    dirty,         \* per task: the operation has changed camera, current_mode or stream
    last,          \* the operation that returned in the latest step: task, request, result, dirty
    nops,          \* operations issued so far
    images,        \* the files of settings.image_path: name and age (seconds since written)
    file,          \* per task: the file whose unlink is in flight / last file clear_directory handled
    ticks,         \* advances of the clock so far
    elapsed,       \* now - stream.started_at in seconds (0 while started_at is None)
    task_func,     \* per task: the action it repeats if it is a repeat_task task, else "none"
    runner,        \* per task: "none", or where its repeat_task loop is ("loop") or ended
    cycles,        \* per task: parity of the number of invocations of its action
    phase,         \* lifespan: "serve" (at the yield) or "release" (background tasks joined)
    threads,       \* calls still running on a worker thread after their await was cancelled
    raced,         \* tasks whose call in flight is on a device object closed during the call
    outcome        \* the outcome of the awaited call that completed in the latest step

vars == <<camera, current_mode, stream, lock, hwOpen, hwRec, pc, req, cam, dirty, last, nops,
          images, file, ticks, elapsed, task_func, runner, cycles, phase, threads, raced,
          outcome>>

life == <<task_func, runner, cycles, phase, threads>>

\* the whole state as one record, so that synchronous code can be composed; `last`
\* describes the operation that returned in the latest step, if one did
S == [camera |-> camera, current_mode |-> current_mode, stream |-> stream, lock |-> lock,
      hwOpen |-> hwOpen, hwRec |-> hwRec, pc |-> pc, req |-> req, cam |-> cam,
      dirty |-> dirty, last |-> NoLast, nops |-> nops, images |-> images, file |-> file,
      elapsed |-> elapsed, task_func |-> task_func, runner |-> runner, cycles |-> cycles,
      phase |-> phase, threads |-> threads, raced |-> raced]

\* guarded sections: the awaits inside `async with self._camera_lock()`
SectionPcs == {"setup_open", "setup_stop", "setup_start", "cap_image", "cap_meta", "cap_save",
               "start_rec", "stop_rec", "stop_clear", "cleanup_stop", "cleanup_close"}
\* awaits of lock.acquire() that had to queue
WaitPcs == {"setup_wait", "cap_wait", "start_wait", "stop_wait", "cleanup_wait"}
\* awaits outside any guarded section
OutsidePcs == {"start_validate", "info_meta", "cleanup_clear", "images_clear", "clear_unlink"}
AwaitPcs == SectionPcs \cup WaitPcs \cup OutsidePcs
\* calls on the device object that are in flight at these awaits
HwCallPcs == {"setup_open", "setup_stop", "setup_start", "cap_image", "cap_meta",
              "start_rec", "stop_rec", "cleanup_stop", "cleanup_close", "info_meta"}

InSection(p) == pc[p] \in SectionPcs

\* ------------------------------------------------------------ asyncio.Lock
\* Lock._wake_up_first : the future of the first waiter is completed
WakeFirst(l) == IF l.waiters # <<>> THEN [l EXCEPT !.headWoken = TRUE] ELSE l

\* _camera_lock, finally: `if self.lock.locked(): self.lock.release()`
ReleaseLock(l) == IF l.locked THEN WakeFirst([l EXCEPT !.locked = FALSE]) ELSE l

Release(s) == [s EXCEPT !.lock = ReleaseLock(s.lock)]

\* Lock.acquire() returns at once iff the lock is free and nobody is queued
CanAcquire(l) == ~l.locked /\ l.waiters = <<>>

\* _camera_lock : await wait_for(self.lock.acquire(), ...); continues at `body`
\* without suspending when the lock is free, else queues and suspends at `wait`
Acquire(s, p, body, wait) ==
    IF CanAcquire(s.lock)
    THEN [s EXCEPT !.lock.locked = TRUE, !.pc[p] = body]
    ELSE [s EXCEPT !.lock.waiters = Append(@, p), !.pc[p] = wait]

RemoveWaiter(w, p) == SelectSeq(w, LAMBDA q : q # p)

\* ---------------------------------------------------------- bookkeeping
\* check_stream_duration: `except RuntimeError` around stop_streaming logs the
\* failure and the cycle returns normally
Caught(r, res) == IF r.op = "duration" /\ res \in RuntimeErrors THEN "logged" ELSE res

\* mutant: repeat_task catches RuntimeError only
repeat_catches_runtimeOnly(res) == res \notin Faults \ RuntimeErrors /\ res # "CancelledError"

\* repeat_task: `except Exception` catches what the action raises, except a
\* CancelledError (a BaseException); the loop goes on to the sleep
repeat_catches(res) == res # "CancelledError"

\* the operation of p returns or raises: the task is idle again; if the task is a
\* repeat_task loop it is then at its sleep, or has ended with the exception
Finish(s, p, res) ==
    [s EXCEPT !.pc[p] = "idle", !.req[p] = NoReq, !.cam[p] = NoHandle, !.dirty[p] = FALSE,
              !.file[p] = NoFile, !.raced = @ \ {p},
              !.runner[p] = IF @ = "loop" /\ ~repeat_catches(Caught(s.req[p], res))
                            THEN "raised" ELSE @,
              !.last = [p |-> p, req |-> s.req[p], result |-> Caught(s.req[p], res),
                        dirty |-> s.dirty[p]]]

\* mutant: the exception leaves the section without the finally's release
RaiseInSection_noRelease(s, p, exc) == Finish(s, p, exc)

\* an exception leaves a guarded section: the context manager's finally runs
RaiseInSection(s, p, exc) == Finish(Release(s), p, exc)

\* assignments to the session state, recording that the operation changed it
SetCamera(s, p, h) ==
    [s EXCEPT !.camera = h, !.dirty[p] = @ \/ ((h = NoHandle) # (s.camera = NoHandle))]
SetMode(s, p, m) ==
    [s EXCEPT !.current_mode = m, !.dirty[p] = @ \/ (m # s.current_mode)]
SetStream(s, p, st) ==
    [s EXCEPT !.stream = st, !.dirty[p] = @ \/ (st # s.stream)]

Referenced(s) == {s.camera} \cup {s.cam[q] : q \in Procs} \cup {c.h : c \in s.threads}
\* Picamera2() : a new object, distinct from every object still referenced
NewHandle(s) == CHOOSE h \in Handles : h \notin Referenced(s) /\ \A g \in Handles : g < h => g \in Referenced(s)
\* objects nobody references any more are forgotten
Canon(s) == [s EXCEPT !.hwOpen = @ \cap Referenced(s), !.hwRec = @ \cap Referenced(s)]

\* -------------------------------------------------------- clear_directory
\* mutant: a file whose age equals time_to_live_s is skipped
expired_strict(age, ttl) == ~(ttl # 0 /\ age <= ttl)

\* a file is unlinked unless `time_to_live_s and age < time_to_live_s`
expired(age, ttl) == ~(ttl # 0 /\ age < ttl)

FileIds(imgs) == {f.id : f \in imgs}
UsedFiles(s) == FileIds(s.images) \cup {s.file[q] : q \in Procs}
\* uuid4().hex : a name that no file has and no clear_directory refers to
NewFile(s) == CHOOSE i \in Files : i \notin UsedFiles(s) /\ \A j \in Files : j < i => j \in UsedFiles(s)

\* clear_directory(settings.image_path, ttl): the loop over path.glob("*") goes on
\* after the file it handled last to the next file that is not skipped and issues
\* its unlink, or the loop ends
clear_next(s, p, ttl, unlink, done) ==
    LET cand == FileIds({g \in s.images : g.id > s.file[p] /\ expired(g.age, ttl)}) IN
    IF cand = {}
    THEN [s EXCEPT !.file[p] = NoFile, !.pc[p] = done]
    ELSE [s EXCEPT !.file[p] = CHOOSE i \in cand : \A j \in cand : i <= j, !.pc[p] = unlink]

\* file.unlink returns or raises (the file is gone already, or the call fails);
\* the loop goes on
unlink_done(s, p, o, glob) ==
    IF o = "fail" \/ s.file[p] \notin FileIds(s.images)
    THEN Finish(s, p, "FileError")
    ELSE [s EXCEPT !.images = {f \in @ : f.id # s.file[p]}, !.pc[p] = glob]

\* --------------------------------------------------- synchronous code
\* the CameraMode an operation asks _setup_camera for
SetupMode(s, p) ==
    CASE s.req[p].op = "open" -> s.req[p].mode
      [] s.req[p].op = "capture" -> "PHOTO"
      [] OTHER -> "VIDEO"

\* _setup_camera, before the guard: PHOTO is refused while a stream is active
setup_check(s, p) ==
    IF is_active(s.stream) /\ SetupMode(s, p) = "PHOTO"
    THEN Finish(s, p, "ActiveStreamError")
    ELSE Acquire(s, p, "setup_body", "setup_wait")

\* mutant: the camera is reconfigured even when it is in the requested mode
setup_body_alwaysReconfigure(s, p) ==
    IF s.camera = NoHandle
    THEN [s EXCEPT !.pc[p] = "setup_open"]
    ELSE [s EXCEPT !.cam[p] = s.camera, !.pc[p] = "setup_stop"]

\* _setup_camera, inside the guard: create the device object, return it, or stop it
setup_body(s, p) ==
    IF s.camera = NoHandle
    THEN [s EXCEPT !.pc[p] = "setup_open"]
    ELSE IF s.current_mode = SetupMode(s, p)
         THEN [s EXCEPT !.pc[p] = "setup_ret"]
         ELSE [s EXCEPT !.cam[p] = s.camera, !.pc[p] = "setup_stop"]

\* _setup_camera: self.camera.configure(config), then the start call is issued
\* (o = "conffail": configure raises)
setup_conf(s, p, o) ==
    IF s.camera = NoHandle
    THEN RaiseInSection(s, p, "AttributeError")
    ELSE IF o = "conffail" \/ s.camera \notin s.hwOpen
         THEN RaiseInSection(s, p, "HardwareError")
         ELSE [s EXCEPT !.cam[p] = s.camera, !.pc[p] = "setup_start"]

\* _setup_camera returns self.camera and leaves the guard; the caller goes on
setup_ret(s, p) ==
    LET r == [Release(s) EXCEPT !.cam[p] = s.camera] IN
    CASE s.req[p].op = "open" -> [r EXCEPT !.pc[p] = "info_begin"]
      [] s.req[p].op = "capture" -> Acquire(r, p, "cap_body", "cap_wait")
      [] OTHER -> Acquire(r, p, "start_body", "start_wait")

\* capture_jpeg, inside the guard: camera.capture_image is issued
cap_body(s, p) ==
    IF s.cam[p] = NoHandle
    THEN RaiseInSection(s, p, "AttributeError")
    ELSE [s EXCEPT !.pc[p] = "cap_image"]

\* mutant: a missing youtube_config is not refused
start_args_noConfigCheck(s, p) ==
    IF s.req[p].mode = "YOUTUBE" /\ s.req[p].cfg # None
    THEN [s EXCEPT !.pc[p] = "start_validate"]
    ELSE [s EXCEPT !.pc[p] = "start_active"]

\* start_streaming: the arguments are checked first
start_args(s, p) ==
    IF s.req[p].mode = "YOUTUBE"
    THEN IF s.req[p].cfg = None
         THEN Finish(s, p, "YoutubeConfigRequiredError")
         ELSE [s EXCEPT !.pc[p] = "start_validate"]
    ELSE [s EXCEPT !.pc[p] = "start_active"]

\* mutant: the active-stream check is missing
start_active_noCheck(s, p) == [s EXCEPT !.pc[p] = "setup_check"]

\* start_streaming: a second stream is refused, else the camera is set up for VIDEO
start_active(s, p) ==
    IF is_active(s.stream)
    THEN Finish(s, p, "ActiveStreamError")
    ELSE [s EXCEPT !.pc[p] = "setup_check"]

\* start_streaming, inside the guard: the sink is built and start_recording issued;
\* every exception of the block is wrapped into the start fault
start_body(s, p) ==
    IF s.cam[p] = NoHandle
    THEN RaiseInSection(s, p, "StreamStartFault")
    ELSE [s EXCEPT !.pc[p] = "start_rec"]

\* get_stream_info / get_status return to their caller with a view or None
info_ret(s, p, v) ==
    CASE s.req[p].op = "start" -> Finish(s, p, IF v = None THEN "InfoFault" ELSE "ok")
      [] s.req[p].op = "info" -> Finish(s, p, IF v = None THEN "absent" ELSE "view")
      [] OTHER -> Finish(s, p, IF v # None /\ is_active(s.stream) THEN "view" ELSE "absent")

\* get_stream_info: the metadata call is issued when a stream is active, without the guard
info_begin(s, p) ==
    IF s.camera # NoHandle /\ is_active(s.stream)
    THEN [s EXCEPT !.cam[p] = s.camera, !.pc[p] = "info_meta"]
    ELSE info_ret(s, p, None)

\* mutant: stop_recording is issued without the check
stop_body_noCheck(s, p) == [s EXCEPT !.cam[p] = s.camera, !.pc[p] = "stop_rec"]

\* stop_streaming, inside the guard
stop_body(s, p) ==
    IF is_active(s.stream) /\ s.camera # NoHandle
    THEN [s EXCEPT !.cam[p] = s.camera, !.pc[p] = "stop_rec"]
    ELSE RaiseInSection(s, p, "NoStreamActive")

\* mutant: the stream is not reset
stop_ret_noReset(s, p) ==
    IF s.req[p].op = "cleanup"
    THEN [Release(s) EXCEPT !.cam[p] = NoHandle, !.pc[p] = "cleanup_glob"]
    ELSE Finish(Release(s), p, "ok")

\* mutant: cleanup calls stop_streaming inside a guarded section it keeps holding
stop_ret_insideGuard(s, p) ==
    LET r == [SetStream(s, p, EmptyStream) EXCEPT !.elapsed = 0] IN
    IF s.req[p].op = "cleanup"
    THEN [r EXCEPT !.cam[p] = NoHandle, !.pc[p] = "cleanup_glob"]
    ELSE Finish(Release(r), p, "ok")

\* stop_streaming resets the stream, leaves the guard and returns to its caller
stop_ret(s, p) ==
    LET r == Release([SetStream(s, p, EmptyStream) EXCEPT !.elapsed = 0]) IN
    IF s.req[p].op = "cleanup"
    THEN [r EXCEPT !.cam[p] = NoHandle, !.pc[p] = "cleanup_glob"]
    ELSE Finish(r, p, "ok")

\* mutant: the active stream is stopped whatever `force` says
cleanup_check_ignoreForce(s, p) ==
    IF is_active(s.stream)
    THEN Acquire(s, p, "stop_body", "stop_wait")
    ELSE [s EXCEPT !.pc[p] = "cleanup_glob"]

\* cleanup(force), before the guard
cleanup_check(s, p) ==
    IF is_active(s.stream) /\ ~s.req[p].force
    THEN Finish(s, p, "ActiveStreamError")
    ELSE IF is_active(s.stream)
         THEN Acquire(s, p, "stop_body", "stop_wait")
         ELSE [s EXCEPT !.pc[p] = "cleanup_glob"]

\* cleanup, inside the guard
cleanup_body(s, p) ==
    IF s.camera # NoHandle
    THEN [s EXCEPT !.cam[p] = s.camera, !.pc[p] = "cleanup_stop"]
    ELSE Finish(Release(s), p, "ok")

\* check_stream_duration: stop_streaming() only if the stream is active, has a
\* started_at and now - started_at > max_stream_duration_s
duration_check(s, p) ==
    IF is_active(s.stream) /\ s.stream.started_at # None /\ s.elapsed > max_stream_duration_s
    THEN [s EXCEPT !.pc[p] = "stop_lock"]
    ELSE Finish(s, p, "ok")

\* camera_to_standby: cleanup() only if no stream is active
standby_check(s, p) ==
    IF ~is_active(s.stream)
    THEN [s EXCEPT !.pc[p] = "cleanup_check"]
    ELSE Finish(s, p, "ok")

\* the first synchronous code of each operation
entry(s, p) ==
    CASE s.req[p].op = "open" -> "setup_check"
      [] s.req[p].op = "capture" -> "setup_check"
      [] s.req[p].op = "start" -> "start_args"
      [] s.req[p].op = "stop" -> "stop_lock"
      [] s.req[p].op = "cleanup" -> "cleanup_check"
      [] s.req[p].op = "standby" -> "standby_check"
      [] s.req[p].op = "cleanup_images" -> "images_glob"
      [] s.req[p].op = "duration" -> "duration_check"
      [] s.req[p].op = "clear_directory" -> "clear_glob"
      [] OTHER -> "info_begin"

SyncStep(s, p) ==
    CASE s.pc[p] = "setup_check" -> setup_check(s, p)
      [] s.pc[p] = "setup_body" -> setup_body(s, p)
      [] s.pc[p] = "setup_ret" -> setup_ret(s, p)
      [] s.pc[p] = "cap_body" -> cap_body(s, p)
      [] s.pc[p] = "start_args" -> start_args(s, p)
      [] s.pc[p] = "start_active" -> start_active(s, p)
      [] s.pc[p] = "start_body" -> start_body(s, p)
      [] s.pc[p] = "info_begin" -> info_begin(s, p)
      [] s.pc[p] = "stop_lock" -> Acquire(s, p, "stop_body", "stop_wait")
      [] s.pc[p] = "stop_body" -> stop_body(s, p)
      [] s.pc[p] = "cleanup_check" -> cleanup_check(s, p)
      [] s.pc[p] = "cleanup_glob" -> clear_next(s, p, hls_ttl_s, "cleanup_clear", "cleanup_lock")
      [] s.pc[p] = "images_glob" -> clear_next(s, p, image_ttl_s, "images_clear", "images_ret")
      [] s.pc[p] = "images_ret" -> Finish(s, p, "ok")
      [] s.pc[p] = "clear_glob" -> clear_next(s, p, s.req[p].ttl, "clear_unlink", "clear_ret")
      [] s.pc[p] = "clear_ret" -> Finish(s, p, "ok")
      [] s.pc[p] = "cleanup_lock" -> Acquire(s, p, "cleanup_body", "cleanup_wait")
      [] s.pc[p] = "cleanup_body" -> cleanup_body(s, p)
      [] s.pc[p] = "standby_check" -> standby_check(s, p)
      [] s.pc[p] = "duration_check" -> duration_check(s, p)

\* the task runs until its operation is suspended at an await or has returned
\* (the state s0 is evaluated once, then the synchronous code is applied to it)
RECURSIVE Run(_, _)
Run(s0, p) ==
    CHOOSE r \in {IF s.pc[p] \in AwaitPcs \cup {"idle"}
                  THEN Canon([s EXCEPT !.raced = @ \ {p}])
                  ELSE Run(SyncStep(s, p), p) : s \in {s0}} : TRUE

Apply(t0) ==
    \E t \in {t0} :
    /\ camera' = t.camera
    /\ current_mode' = t.current_mode
    /\ stream' = t.stream
    /\ lock' = t.lock
    /\ hwOpen' = t.hwOpen
    /\ hwRec' = t.hwRec
    /\ pc' = t.pc
    /\ req' = t.req
    /\ cam' = t.cam
    /\ dirty' = t.dirty
    /\ last' = t.last
    /\ nops' = t.nops
    /\ images' = t.images
    /\ file' = t.file
    /\ elapsed' = t.elapsed
    /\ task_func' = t.task_func
    /\ runner' = t.runner
    /\ cycles' = t.cycles
    /\ phase' = t.phase
    /\ threads' = t.threads
    /\ raced' = t.raced
    /\ ticks' = ticks

\* ------------------------------------------------------------- actions
Init ==
    /\ camera = NoHandle
    /\ current_mode = None
    /\ stream = EmptyStream
    /\ lock = [locked |-> FALSE, waiters |-> <<>>, headWoken |-> FALSE]
    /\ hwOpen = {}
    /\ hwRec = {}
    /\ pc = [p \in Procs |-> "idle"]
    /\ req = [p \in Procs |-> NoReq]
    /\ cam = [p \in Procs |-> NoHandle]
    /\ dirty = [p \in Procs |-> FALSE]
    /\ last = NoLast
    /\ nops = 0
    /\ images = {}
    /\ file = [p \in Procs |-> NoFile]
    /\ ticks = 0
    /\ elapsed = 0
    /\ task_func = [p \in Procs |-> "none"]
    /\ runner = [p \in Procs |-> "none"]
    /\ cycles = [p \in Procs |-> 0]
    /\ phase = "serve"
    /\ threads = {}
    /\ raced = {}
    /\ outcome = "none"

\* a request handler or a background cycle calls an operation of the manager
Begin(p, r) ==
    /\ pc[p] = "idle"
    /\ nops < MaxOps
    /\ r.op = "capture" =>
          Cardinality(images) + Cardinality({q \in Procs : req[q].op = "capture"}) < MaxImages
    /\ outcome' = "none"
    /\ Apply(Run([S EXCEPT !.req[p] = r, !.pc[p] = entry([S EXCEPT !.req[p] = r], p),
                           !.nops = @ + 1], p))

\* the section a queued acquire leads into
BodyOf(w) ==
    CASE w = "setup_wait" -> "setup_body"
      [] w = "cap_wait" -> "cap_body"
      [] w = "start_wait" -> "start_body"
      [] w = "stop_wait" -> "stop_body"
      [] w = "cleanup_wait" -> "cleanup_body"

\* Lock.acquire() of a queued waiter returns: its future was completed by a release
acquired(s, p) ==
    [s EXCEPT !.lock = [locked |-> TRUE, waiters |-> Tail(s.lock.waiters), headWoken |-> FALSE],
              !.pc[p] = BodyOf(s.pc[p])]

LockAcquired(p) ==
    /\ pc[p] \in WaitPcs
    /\ lock.waiters # <<>>
    /\ Head(lock.waiters) = p
    /\ lock.headWoken
    /\ Apply(Run(acquired(S, p), p))
    /\ outcome' = "none"

\* mutant: the TimeoutError is not turned into the lock-timeout fault
timed_out_unhandled(s, p) ==
    LET l1 == [s.lock EXCEPT !.waiters = RemoveWaiter(@, p)]
        l2 == IF ~l1.locked THEN WakeFirst(l1) ELSE l1
    IN Finish([s EXCEPT !.lock = ReleaseLock(l2)], p, "HardwareError")

\* wait_for cancels the queued acquire after lock_timeout: Lock.acquire() removes its
\* future (and wakes the head if the lock is free), _camera_lock turns the
\* TimeoutError into the lock-timeout RuntimeError, and its finally releases the
\* lock if it is locked
timed_out(s, p) ==
    LET l1 == [s.lock EXCEPT !.waiters = RemoveWaiter(@, p)]
        l2 == IF ~l1.locked THEN WakeFirst(l1) ELSE l1
    IN Finish([s EXCEPT !.lock = ReleaseLock(l2)], p, "LockTimeout")

LockTimeout(p) ==
    /\ pc[p] \in WaitPcs
    /\ ~(lock.headWoken /\ Head(lock.waiters) = p)
    /\ Apply(Run(timed_out(S, p), p))
    /\ outcome' = "none"

\* the tasks other than p whose call in flight is on device object h
InFlightOn(s, p, h) == {q \in Procs \ {p} : s.pc[q] \in HwCallPcs /\ s.cam[q] = h}

\* the object h is closed: the calls in flight on it race with the close
Close(s, p, h) ==
    [s EXCEPT !.hwOpen = @ \ {h}, !.hwRec = @ \ {h}, !.raced = @ \cup InFlightOn(s, p, h)]

\* a call raises if it was issued on a device object already closed; a call that
\* was in flight while its object was closed returns or raises
CallFails(s, p, o) == o = "fail" \/ (s.cam[p] \notin s.hwOpen /\ p \notin s.raced)

\* Picamera2() returns or raises
setup_open_done(s, p, o) ==
    IF o = "fail"
    THEN RaiseInSection(s, p, "HardwareError")
    ELSE LET h == NewHandle(s) IN
         setup_conf(SetCamera([s EXCEPT !.hwOpen = @ \cup {h}], p, h), p, o)

SetupOpenDone(p, o) ==
    /\ pc[p] = "setup_open"
    /\ Apply(Run(setup_open_done(S, p, o), p))
    /\ outcome' = o

\* self.camera.stop returns or raises
setup_stop_done(s, p, o) ==
    IF CallFails(s, p, o)
    THEN RaiseInSection(s, p, "HardwareError")
    ELSE setup_conf([s EXCEPT !.cam[p] = NoHandle], p, o)

SetupStopDone(p, o) ==
    /\ pc[p] = "setup_stop"
    /\ Apply(Run(setup_stop_done(S, p, o), p))
    /\ outcome' = o

\* self.camera.start returns or raises; then current_mode = mode
setup_start_done(s, p, o) ==
    IF CallFails(s, p, o)
    THEN RaiseInSection(s, p, "HardwareError")
    ELSE [SetMode(s, p, SetupMode(s, p)) EXCEPT !.pc[p] = "setup_ret"]

SetupStartDone(p, o) ==
    /\ pc[p] = "setup_start"
    /\ Apply(Run(setup_start_done(S, p, o), p))
    /\ outcome' = o

\* camera.capture_image returns or raises; then capture_metadata is issued
cap_image_done(s, p, o) ==
    IF CallFails(s, p, o)
    THEN RaiseInSection(s, p, "HardwareError")
    ELSE [s EXCEPT !.pc[p] = "cap_meta"]

CapImageDone(p, o) ==
    /\ pc[p] = "cap_image"
    /\ Apply(Run(cap_image_done(S, p, o), p))
    /\ outcome' = o

\* camera.capture_metadata returns metadata or None, or raises; then the file is saved
cap_meta_done(s, p, o) ==
    IF CallFails(s, p, o)
    THEN RaiseInSection(s, p, "HardwareError")
    ELSE IF o = "none"
         THEN RaiseInSection(s, p, "MetadataFault")
         ELSE [s EXCEPT !.pc[p] = "cap_save"]

CapMetaDone(p, o) ==
    /\ pc[p] = "cap_meta"
    /\ Apply(Run(cap_meta_done(S, p, o), p))
    /\ outcome' = o

\* pil_image.save returns or raises; capture_jpeg leaves the guard and returns
cap_save_done(s, p, o) ==
    IF o = "fail"
    THEN RaiseInSection(s, p, "FileError")
    ELSE Finish(Release([s EXCEPT !.images = @ \cup {[id |-> NewFile(s), age |-> 0]}]), p, "ok")

CapSaveDone(p, o) ==
    /\ pc[p] = "cap_save"
    /\ Apply(Run(cap_save_done(S, p, o), p))
    /\ outcome' = o

\* mutant: a rejected stream key is accepted
start_validate_done_acceptAll(s, p, o) ==
    IF o = "error" THEN Finish(s, p, "HttpError") ELSE [s EXCEPT !.pc[p] = "start_active"]

\* validate_stream_key: HTTP 202, another status, or the request raises
start_validate_done(s, p, o) ==
    CASE o = "error" -> Finish(s, p, "HttpError")
      [] o = "rejected" -> Finish(s, p, "YouTubeValidationError")
      [] OTHER -> [s EXCEPT !.pc[p] = "start_active"]

StartValidateDone(p, o) ==
    /\ pc[p] = "start_validate"
    /\ Apply(Run(start_validate_done(S, p, o), p))
    /\ outcome' = o

\* mutant: the url is not assigned
Populated_noUrl(mode, cfg) ==
    [mode |-> mode, url |-> None, started_at |-> "now-5s", youtube_config |-> cfg]

\* the Stream fields start_streaming assigns after start_recording
Populated(mode, cfg) ==
    [mode |-> mode, url |-> get_stream_url(mode, cfg), started_at |-> "now-5s",
     youtube_config |-> cfg]

\* get_stream_url raises YoutubeConfigRequiredError for YOUTUBE without a config
get_stream_url_raises(mode, cfg) == mode = "YOUTUBE" /\ cfg = None

\* camera.start_recording returns or raises (the sink constructor raising has the
\* same effect); on success stream.mode is assigned, then url (get_stream_url may
\* raise), started_at and youtube_config, the guard is left and get_stream_info called
start_rec_done(s, p, o) ==
    IF CallFails(s, p, o)
    THEN RaiseInSection(s, p, "StreamStartFault")
    ELSE LET s1 == [s EXCEPT !.hwRec = @ \cup {s.cam[p]}]
             s2 == SetStream(s1, p, [s1.stream EXCEPT !.mode = s.req[p].mode])
             s3 == [SetStream(s2, p, Populated(s.req[p].mode, s.req[p].cfg))
                       EXCEPT !.elapsed = started_at_offset_s]
         IN IF get_stream_url_raises(s.req[p].mode, s.req[p].cfg)
            THEN RaiseInSection(s2, p, "StreamStartFault")
            ELSE [Release(s3) EXCEPT !.pc[p] = "info_begin"]

StartRecDone(p, o) ==
    /\ pc[p] = "start_rec"
    /\ Apply(Run(start_rec_done(S, p, o), p))
    /\ outcome' = o

\* get_stream_info: capture_metadata returns metadata or None, or raises; then
\* self.stream._get_info(camera_properties=self.camera.camera_properties, ...)
info_meta_done(s, p, o) ==
    IF CallFails(s, p, o)
    THEN Finish(s, p, "HardwareError")
    ELSE IF o = "none"
         THEN Finish(s, p, "MetadataFault")
         ELSE IF s.camera = NoHandle
              THEN Finish(s, p, "AttributeError")
              ELSE info_ret(s, p, IF is_active(s.stream) THEN "view" ELSE None)

InfoMetaDone(p, o) ==
    /\ pc[p] = "info_meta"
    /\ Apply(Run(info_meta_done(S, p, o), p))
    /\ outcome' = o

\* self.camera.stop_recording returns or raises; a LOCAL stream's directory is
\* cleared: clear_directory(hls_path) issues an unlink when the directory holds a
\* file that is not skipped (o = "ok") and does not suspend when it holds none
\* (o = "nofiles")
stop_rec_done(s, p, o) ==
    IF CallFails(s, p, o)
    THEN RaiseInSection(s, p, "HardwareError")
    ELSE LET s1 == [s EXCEPT !.hwRec = @ \ {s.cam[p]}, !.cam[p] = NoHandle] IN
         IF s.stream.mode = "LOCAL" /\ o # "nofiles"
         THEN [s1 EXCEPT !.pc[p] = "stop_clear"]
         ELSE stop_ret(s1, p)

StopRecDone(p, o) ==
    /\ pc[p] = "stop_rec"
    /\ Apply(Run(stop_rec_done(S, p, o), p))
    /\ outcome' = o

\* the unlink of clear_directory(hls_path) returns or raises
stop_clear_done(s, p, o) ==
    IF o = "fail"
    THEN RaiseInSection(s, p, "FileError")
    ELSE stop_ret(s, p)

StopClearDone(p, o) ==
    /\ pc[p] = "stop_clear"
    /\ Apply(Run(stop_clear_done(S, p, o), p))
    /\ outcome' = o

\* cleanup: an unlink of clear_directory(image_path, hls_ttl_s) returns or raises;
\* after the loop the guard is taken
cleanup_clear_done(s, p, o) == unlink_done(s, p, o, "cleanup_glob")

CleanupClearDone(p, o) ==
    /\ pc[p] = "cleanup_clear"
    /\ Apply(Run(cleanup_clear_done(S, p, o), p))
    /\ outcome' = o

\* cleanup: self.camera.stop returns or raises; then self.camera.close is issued
cleanup_stop_done(s, p, o) ==
    IF CallFails(s, p, o)
    THEN RaiseInSection(s, p, "HardwareError")
    ELSE IF s.camera = NoHandle
         THEN RaiseInSection(s, p, "AttributeError")
         ELSE [s EXCEPT !.cam[p] = s.camera, !.pc[p] = "cleanup_close"]

CleanupStopDone(p, o) ==
    /\ pc[p] = "cleanup_stop"
    /\ Apply(Run(cleanup_stop_done(S, p, o), p))
    /\ outcome' = o

\* cleanup: self.camera.close returns or raises; then camera and current_mode are reset
cleanup_close_done(s, p, o) ==
    IF o = "fail"
    THEN RaiseInSection(s, p, "HardwareError")
    ELSE LET s2 == SetMode(SetCamera(Close(s, p, s.cam[p]), p, NoHandle), p, None)
         IN Finish(Release(s2), p, "ok")

CleanupCloseDone(p, o) ==
    /\ pc[p] = "cleanup_close"
    /\ Apply(Run(cleanup_close_done(S, p, o), p))
    /\ outcome' = o

\* cleanup_images: an unlink of clear_directory(image_path, image_ttl_s) returns or raises
images_clear_done(s, p, o) == unlink_done(s, p, o, "images_glob")

ImagesClearDone(p, o) ==
    /\ pc[p] = "images_clear"
    /\ Apply(Run(images_clear_done(S, p, o), p))
    /\ outcome' = o

\* clear_directory(path, ttl): an unlink returns or raises
clear_unlink_done(s, p, o) == unlink_done(s, p, o, "clear_glob")

ClearUnlinkDone(p, o) ==
    /\ pc[p] = "clear_unlink"
    /\ Apply(Run(clear_unlink_done(S, p, o), p))
    /\ outcome' = o

\* the steps of the operations other than a lock timeout and the unlinks of
\* clear_directory(image_path): no file is unlinked before the clock has advanced,
\* because a file is written with age 0 and hls_ttl_s, image_ttl_s > 0
OpStep ==
    \E p \in Procs :
        \/ \E r \in Requests : Begin(p, r)
        \/ LockAcquired(p)
        \/ \E o \in {"ok", "fail", "conffail"} : SetupOpenDone(p, o)
        \/ \E o \in {"ok", "fail", "conffail"} : SetupStopDone(p, o)
        \/ \E o \in {"ok", "fail"} : SetupStartDone(p, o)
        \/ \E o \in {"ok", "fail"} : CapImageDone(p, o)
        \/ \E o \in {"ok", "none", "fail"} : CapMetaDone(p, o)
        \/ \E o \in {"ok", "fail"} : CapSaveDone(p, o)
        \/ \E o \in {"accepted", "rejected", "error"} : StartValidateDone(p, o)
        \/ \E o \in {"ok", "fail"} : StartRecDone(p, o)
        \/ \E o \in {"ok", "none", "fail"} : InfoMetaDone(p, o)
        \/ \E o \in {"ok", "nofiles", "fail"} : StopRecDone(p, o)
        \/ \E o \in {"ok", "fail"} : StopClearDone(p, o)
        \/ \E o \in {"ok", "fail"} : CleanupStopDone(p, o)
        \/ \E o \in {"ok", "fail"} : CleanupCloseDone(p, o)

Timeout == \E p \in Procs : LockTimeout(p)

Next == OpStep \/ Timeout

Spec == Init /\ [][Next]_vars

\* an awaited call of task p returns or raises, or its queued acquire is served
Returns(p) ==
    \/ LockAcquired(p)
    \/ \E o \in {"ok", "fail", "conffail"} : SetupOpenDone(p, o)
    \/ \E o \in {"ok", "fail", "conffail"} : SetupStopDone(p, o)
    \/ \E o \in {"ok", "fail"} : SetupStartDone(p, o)
    \/ \E o \in {"ok", "fail"} : CapImageDone(p, o)
    \/ \E o \in {"ok", "none", "fail"} : CapMetaDone(p, o)
    \/ \E o \in {"ok", "fail"} : CapSaveDone(p, o)
    \/ \E o \in {"accepted", "rejected", "error"} : StartValidateDone(p, o)
    \/ \E o \in {"ok", "fail"} : StartRecDone(p, o)
    \/ \E o \in {"ok", "none", "fail"} : InfoMetaDone(p, o)
    \/ \E o \in {"ok", "nofiles", "fail"} : StopRecDone(p, o)
    \/ \E o \in {"ok", "fail"} : StopClearDone(p, o)
    \/ \E o \in {"ok", "fail"} : CleanupStopDone(p, o)
    \/ \E o \in {"ok", "fail"} : CleanupCloseDone(p, o)

\* the awaited calls terminate and the event loop runs every task that can run;
\* nothing is assumed about lock timeouts (they may fire or never fire)
SpecFair == Spec /\ \A p \in Procs : WF_vars(Returns(p))

\* the behaviours in which no acquire ever waits as long as lock_timeout
SpecNoTimeout == Init /\ [][OpStep]_vars

\* the operations called one after the other: a call is made, and its awaits
\* complete, while no other task has an operation in progress
Alone(p) == \A q \in Procs \ {p} : pc[q] = "idle"

SeqStep ==
    \E p \in Procs :
        \/ \E r \in Requests : Alone(p) /\ Begin(p, r)
        \/ \E o \in {"ok", "fail", "conffail"} : Alone(p) /\ SetupOpenDone(p, o)
        \/ \E o \in {"ok", "fail", "conffail"} : Alone(p) /\ SetupStopDone(p, o)
        \/ \E o \in {"ok", "fail"} : Alone(p) /\ SetupStartDone(p, o)
        \/ \E o \in {"ok", "fail"} : Alone(p) /\ CapImageDone(p, o)
        \/ \E o \in {"ok", "none", "fail"} : Alone(p) /\ CapMetaDone(p, o)
        \/ \E o \in {"ok", "fail"} : Alone(p) /\ CapSaveDone(p, o)
        \/ \E o \in {"accepted", "rejected", "error"} : Alone(p) /\ StartValidateDone(p, o)
        \/ \E o \in {"ok", "fail"} : Alone(p) /\ StartRecDone(p, o)
        \/ \E o \in {"ok", "none", "fail"} : Alone(p) /\ InfoMetaDone(p, o)
        \/ \E o \in {"ok", "nofiles", "fail"} : Alone(p) /\ StopRecDone(p, o)
        \/ \E o \in {"ok", "fail"} : Alone(p) /\ StopClearDone(p, o)
        \/ \E o \in {"ok", "fail"} : Alone(p) /\ CleanupStopDone(p, o)
        \/ \E o \in {"ok", "fail"} : Alone(p) /\ CleanupCloseDone(p, o)

SpecSeq == Init /\ [][SeqStep]_vars

\* the clock advances by d seconds: every file of the image directory ages (ages
\* from image_ttl_s on are not distinguished) and so does the stream's started_at
\* (ages above max_stream_duration_s are not distinguished); an unlink in flight
\* takes no time
Tick(d) ==
    /\ ticks < MaxTicks
    /\ \/ \E f \in images : f.age < image_ttl_s
       \/ stream.started_at # None /\ elapsed <= max_stream_duration_s
    /\ \A p \in Procs : pc[p] \notin {"cleanup_clear", "images_clear"}
    /\ elapsed' = IF stream.started_at = None THEN elapsed
                  ELSE IF elapsed + d <= max_stream_duration_s THEN elapsed + d
                  ELSE max_stream_duration_s + 1
    /\ images' = {[id |-> f.id, age |-> IF f.age + d < image_ttl_s THEN f.age + d ELSE image_ttl_s] :
                      f \in images}
    /\ ticks' = ticks + 1
    /\ last' = NoLast
    /\ outcome' = "none"
    /\ UNCHANGED <<camera, current_mode, stream, lock, hwOpen, hwRec, pc, req, cam, dirty, nops, file>>
    /\ UNCHANGED <<life, raced>>

Clock == \E d \in Durations : Tick(d)

\* the unlinks of clear_directory(image_path) complete
FileStep ==
    \E p \in Procs :
        \/ \E o \in {"ok", "fail"} : CleanupClearDone(p, o)
        \/ \E o \in {"ok", "fail"} : ImagesClearDone(p, o)

\* a cycle of check_stream_duration begins (it has no effect before the clock advanced)
DurationStep == \E p \in Procs : Begin(p, DurationCheck)

\* the operations, without lock timeouts, while time passes
SpecClock == Init /\ [][OpStep \/ FileStep \/ DurationStep \/ Clock]_vars

\* ---------------------------------------------- clear_directory on its own
\* the files and ages of the directories clear_directory is called on
ClearFiles == 1..(MaxImages + 1)
Ages == {0, hls_ttl_s - 1, hls_ttl_s, hls_ttl_s + 1}
Directories == {d \in SUBSET [id : ClearFiles, age : Ages] :
                    \A f, g \in d : f.id = g.id => f = g}

InitClear ==
    /\ camera = NoHandle
    /\ current_mode = None
    /\ stream = EmptyStream
    /\ lock = [locked |-> FALSE, waiters |-> <<>>, headWoken |-> FALSE]
    /\ hwOpen = {}
    /\ hwRec = {}
    /\ pc = [p \in Procs |-> "idle"]
    /\ req = [p \in Procs |-> NoReq]
    /\ cam = [p \in Procs |-> NoHandle]
    /\ dirty = [p \in Procs |-> FALSE]
    /\ last = NoLast
    /\ nops = 0
    /\ images \in Directories
    /\ file = [p \in Procs |-> NoFile]
    /\ ticks = 0
    /\ elapsed = 0
    /\ task_func = [p \in Procs |-> "none"]
    /\ runner = [p \in Procs |-> "none"]
    /\ cycles = [p \in Procs |-> 0]
    /\ phase = "serve"
    /\ threads = {}
    /\ raced = {}
    /\ outcome = "none"

\* a concurrent writer (ffmpeg in hls_path, a capture in image_path) creates file f
\* or writes it again: its modification time is now
Write(f) ==
    /\ [id |-> f, age |-> 0] \notin images
    /\ images' = {g \in images : g.id # f} \cup {[id |-> f, age |-> 0]}
    /\ last' = NoLast
    /\ outcome' = "none"
    /\ UNCHANGED <<camera, current_mode, stream, lock, hwOpen, hwRec, pc, req, cam, dirty, nops,
                   file, ticks, elapsed>>
    /\ UNCHANGED <<life, raced>>

ClearStep ==
    \E p \in Procs :
        \/ \E r \in ClearRequests : Begin(p, r)
        \/ \E o \in {"ok", "fail"} : ClearUnlinkDone(p, o)

Writer == \E f \in ClearFiles : Write(f)

\* calls of clear_directory on a directory of any content, with concurrent writers
SpecClear == InitClear /\ [][ClearStep \/ Writer]_vars

\* ------------------------------------------------- lifespan and repeat_task
\* task 1 serves the requests and runs the lifespan's shutdown; the other tasks are
\* the repeat_task tasks the lifespan created
Main == 1
Runners == Procs \ {Main}
RunnerFuncs == {"cleanup_images", "standby", "duration"}
Ended == {"cancelled_sleep", "cancelled_call", "raised"}
ServeRequests == {r \in Requests : r.op \in {"open", "stop"} \/ (r.op = "start" /\ r.mode = "LOCAL")}
ForcedCleanup == [op |-> "cleanup", mode |-> None, cfg |-> None, force |-> TRUE, ttl |-> 0]
FuncRequest(f) == [op |-> f, mode |-> None, cfg |-> None, force |-> FALSE, ttl |-> 0]

\* lifespan, at the yield: the three repeat_task tasks exist and have not run yet
InitLife ==
    /\ camera = NoHandle
    /\ current_mode = None
    /\ stream = EmptyStream
    /\ lock = [locked |-> FALSE, waiters |-> <<>>, headWoken |-> FALSE]
    /\ hwOpen = {}
    /\ hwRec = {}
    /\ pc = [p \in Procs |-> "idle"]
    /\ req = [p \in Procs |-> NoReq]
    /\ cam = [p \in Procs |-> NoHandle]
    /\ dirty = [p \in Procs |-> FALSE]
    /\ last = NoLast
    /\ nops = 0
    /\ images = {}
    /\ file = [p \in Procs |-> NoFile]
    /\ ticks = 0
    /\ elapsed = 0
    /\ task_func \in {f \in [Procs -> RunnerFuncs \cup {"none"}] :
                        \A p \in Procs : f[p] = "none" <=> p = Main}
    /\ runner = [p \in Procs |-> IF p = Main THEN "none" ELSE "loop"]
    /\ cycles = [p \in Procs |-> 0]
    /\ phase = "serve"
    /\ threads = {}
    /\ raced = {}
    /\ outcome = "none"

\* repeat_task: the loop, at its start or after its sleep, invokes task_func
RunnerCycle(p) ==
    /\ runner[p] = "loop"
    /\ pc[p] = "idle"
    /\ outcome' = "none"
    /\ Apply(Run([S EXCEPT !.req[p] = FuncRequest(task_func[p]),
                           !.pc[p] = entry([S EXCEPT !.req[p] = FuncRequest(task_func[p])], p),
                           !.cycles[p] = 1 - @], p))

\* a request is served
Serve(r) == phase = "serve" /\ Begin(Main, r)

\* mutant: the sleep is not interrupted by the cancellation
cancelled_ignored(s, p) ==
    IF s.pc[p] = "idle"
    THEN s
    ELSE [Finish(Release(s), p, "CancelledError") EXCEPT !.runner[p] = "cancelled_call"]

\* task.cancel() reaches the repeat_task task p: CancelledError is raised at the
\* await where it is suspended. At the sleep the loop just ends. At a queued
\* lock.acquire() the waiter is removed (and the head woken if the lock is free) and
\* the finally of _camera_lock releases the lock if it is locked. At an awaited
\* to_thread call the finally of a guarded section releases the lock, and the call
\* goes on running on its worker thread. The exception passes `except Exception`
\* and `except RuntimeError`, so the task ends.
cancelled(s, p) ==
    IF s.pc[p] = "idle"
    THEN [s EXCEPT !.runner[p] = "cancelled_sleep"]
    ELSE IF s.pc[p] \in WaitPcs
    THEN LET l1 == [s.lock EXCEPT !.waiters = RemoveWaiter(@, p),
                                  !.headWoken = @ /\ Head(s.lock.waiters) # p]
             l2 == IF ~l1.locked THEN WakeFirst(l1) ELSE l1
         IN [Finish([s EXCEPT !.lock = ReleaseLock(l2)], p, "CancelledError")
                EXCEPT !.runner[p] = "cancelled_call"]
    ELSE LET c == [call |-> s.pc[p], h |-> s.cam[p], f |-> s.file[p]]
             s1 == [s EXCEPT !.threads = @ \cup {c}]
         IN [Finish(IF s.pc[p] \in SectionPcs THEN Release(s1) ELSE s1, p, "CancelledError")
                EXCEPT !.runner[p] = "cancelled_call"]

\* mutant: the background tasks are not cancelled
CancelAll_none(s, ps) == s

\* lifespan: `for task in tasks: task.cancel()`, then gather: every task has ended
RECURSIVE CancelAll(_, _)
CancelAll(s, ps) ==
    IF ps = {} THEN s
    ELSE LET p == CHOOSE q \in ps : \A r \in ps : q <= r
         IN CancelAll(IF s.runner[p] = "loop" THEN cancelled(s, p) ELSE s, ps \ {p})

\* lifespan after the yield: the background tasks are cancelled and joined, then
\* cleanup(force=True) is called
Shutdown ==
    /\ phase = "serve"
    /\ pc[Main] = "idle"
    /\ outcome' = "none"
    /\ LET s1 == [CancelAll(S, Runners) EXCEPT !.phase = "release", !.req[Main] = ForcedCleanup]
       IN Apply(Run([s1 EXCEPT !.pc[Main] = entry(s1, Main)], Main))

\* a call left running on a worker thread returns
ThreadDone(c) ==
    /\ c \in threads
    /\ threads' = threads \ {c}
    /\ hwOpen' = IF c.call = "cleanup_close" THEN hwOpen \ {c.h} ELSE hwOpen
    /\ raced' = IF c.call = "cleanup_close" THEN raced \cup InFlightOn(S, 0, c.h) ELSE raced
    /\ hwRec' = IF c.call \in {"cleanup_close", "stop_rec"} THEN hwRec \ {c.h} ELSE hwRec
    /\ images' = IF c.call \in {"cleanup_clear", "images_clear"}
                 THEN {g \in images : g.id # c.f} ELSE images
    /\ last' = NoLast
    /\ outcome' = "none"
    /\ UNCHANGED <<camera, current_mode, stream, lock, pc, req, cam, dirty, nops, file, ticks,
                   elapsed, task_func, runner, cycles, phase>>

\* an awaited call or lock acquisition of task p completes
Completion(p) ==
    \/ LockAcquired(p)
    \/ \E o \in {"ok", "fail", "conffail"} : SetupOpenDone(p, o)
    \/ \E o \in {"ok", "fail", "conffail"} : SetupStopDone(p, o)
    \/ \E o \in {"ok", "fail"} : SetupStartDone(p, o)
    \/ \E o \in {"ok", "fail"} : StartRecDone(p, o)
    \/ \E o \in {"ok", "none", "fail"} : InfoMetaDone(p, o)
    \/ \E o \in {"ok", "nofiles", "fail"} : StopRecDone(p, o)
    \/ \E o \in {"ok", "fail"} : StopClearDone(p, o)
    \/ \E o \in {"ok", "fail"} : CleanupStopDone(p, o)
    \/ \E o \in {"ok", "fail"} : CleanupCloseDone(p, o)

LifeStep ==
    \/ \E r \in ServeRequests : Serve(r)
    \/ \E p \in Runners : RunnerCycle(p)
    \/ \E p \in Procs : Completion(p)
    \/ Shutdown
    \/ \E c \in threads : ThreadDone(c)
    \/ Clock

\* the application from startup to shutdown
SpecLife == InitLife /\ [][LifeStep]_vars

\* the event loop runs every task that can run: an awaited call returns or raises,
\* a woken waiter gets the lock, a sleep ends
SpecLifeFair ==
    /\ SpecLife
    /\ \A p \in Procs : WF_vars(Completion(p))
    /\ \A p \in Runners : WF_vars(RunnerCycle(p))

TypeOK ==
    /\ camera \in Handles \cup {NoHandle}
    /\ current_mode \in CameraModes \cup {None}
    /\ pc \in [Procs -> AwaitPcs \cup {"idle"}]
    /\ nops \in 0..MaxOps

\* ------------------------------------------------------------- claims
StreamActive == is_active(stream)
Closed == camera = NoHandle /\ current_mode = None /\ stream = EmptyStream
Finished == last.p # 0
Failed == Finished /\ last.result \in Faults
Starts(p) == pc[p] = "idle" /\ nops' # nops /\ (req'[p].op = "start" \/ (last'.p = p /\ last'.req.op = "start"))
Validated(p) == pc[p] = "start_validate" /\ pc'[p] # "start_validate"
Pending(p) == pc[p] \in WaitPcs /\ ~(lock.headWoken /\ Head(lock.waiters) = p)
MutatingOps == {"open", "capture", "start", "stop", "cleanup", "standby"}
\* task p calls operation op in this step / the request it calls with
Calls(p, op) == pc[p] = "idle" /\ nops' # nops /\ (req'[p].op = op \/ (last'.p = p /\ last'.req.op = op))
Called(p) == IF pc'[p] = "idle" THEN last'.req ELSE req'[p]
\* task p, queued at `wait`, is given the lock in this step
Woken(p, wait) == pc[p] = wait /\ lock.headWoken /\ Head(lock.waiters) = p /\ pc'[p] # wait
\* the operation of p fails in this step with fault f, having changed nothing
FailsWith(p, f) == pc'[p] = "idle" /\ last'.p = p /\ last'.result = f /\ ~last'.dirty
SessionUnchanged == camera' = camera /\ current_mode' = current_mode /\ stream' = stream
DeviceUnchanged == hwOpen' = hwOpen /\ hwRec' = hwRec
BadOutcomes == {"fail", "conffail", "none", "rejected", "error"}
SetupCallPcs == {"setup_open", "setup_stop", "setup_start"}

\* C1: at most one operation is inside a guarded section at any time (as claimed;
\* refuted by the lock-timeout path of _camera_lock, whose finally releases a lock
\* that another operation holds)
C1_MutualExclusion == Cardinality({p \in Procs : InSection(p)}) <= 1

\* C2: if the stream is active then the hardware handle is present and
\* current_mode is VIDEO (as claimed; refuted)
C2_ActiveImpliesVideo == StreamActive => (camera # NoHandle /\ current_mode = "VIDEO")

\* C4: no still-capture hardware call (capture_image) is in flight while the stream
\* is active (as claimed; refuted by a capture queued behind a start)
C4_NoCaptureWhileStreaming == \A p \in Procs : pc[p] = "cap_image" => ~StreamActive

\* C7: every hardware call is in flight only inside a guarded section of the task
\* that issued it (as claimed; refuted by get_stream_info's capture_metadata)
C7_HardwareCallsGuarded == \A p \in Procs : pc[p] \in HwCallPcs => InSection(p)

\* C3 as claimed: a start issued while a stream is active that returns at once
\* (LOCAL, or YOUTUBE without a config) or returns from the validation while the
\* stream is still active fails with ActiveStreamError and leaves the Stream as it
\* was (refuted: the argument checks come first)
C3_AlwaysActiveStreamError ==
    [][\A p \in Procs :
        (StreamActive /\ (Starts(p) \/ Validated(p)) /\ last'.p = p)
            => (last'.result = "ActiveStreamError" /\ stream' = stream)]_vars

\* C3 amended: a start issued while a stream is active leaves the Stream as it was
\* and fails: with ActiveStreamError for LOCAL; with the config-required fault for
\* YOUTUBE without a config; a YOUTUBE start with a config first awaits the
\* validation, and when that returns while the stream is active it fails with the
\* validation fault (rejected), the request's own error, or ActiveStreamError
C3_StartWhileActiveFails ==
    [][\A p \in Procs :
        /\ (StreamActive /\ Starts(p)) =>
              /\ stream' = stream
              /\ IF pc'[p] = "idle"
                 THEN /\ last'.p = p
                      /\ last'.result = IF last'.req.mode = "LOCAL" THEN "ActiveStreamError"
                                        ELSE "YoutubeConfigRequiredError"
                      /\ last'.req.mode = "YOUTUBE" => last'.req.cfg = None
                 ELSE pc'[p] = "start_validate" /\ req'[p].mode = "YOUTUBE" /\ req'[p].cfg # None
        /\ (StreamActive /\ Validated(p)) =>
              /\ stream' = stream
              /\ pc'[p] = "idle"
              /\ last'.p = p
              /\ last'.result \in {"ActiveStreamError", "YouTubeValidationError", "HttpError"}]_vars

\* C3 witness: a start was refused with ActiveStreamError while the stream is active
C3_Witness ==
    Finished /\ last.req.op = "start" /\ last.result = "ActiveStreamError" /\ StreamActive

C6_GuardReleased ==
    /\ lock.locked => \E p \in Procs : InSection(p)
    /\ (~lock.locked /\ lock.waiters # <<>>) => lock.headWoken

\* C6 witness: an operation has just failed inside its guarded section ('No stream
\* active', a hardware fault, a metadata failure) and the lock is free
C6_Witness ==
    /\ Finished
    /\ last.result \in {"NoStreamActive", "HardwareError", "MetadataFault"}
    /\ last.req.op \in {"stop", "capture"}
    /\ ~lock.locked

\* C8 as claimed: a start_streaming that fails after its active-stream check leaves
\* the Stream empty, and a failed start_recording surfaces as the start fault
\* (refuted: a failure of get_stream_info after the Stream was populated)
C8_FailedStartLeavesStreamEmpty ==
    [][\A p \in Procs :
        (req[p].op = "start" /\ pc[p] # "start_validate" /\ last'.p = p /\ last'.result \in Faults)
            => /\ stream' = EmptyStream
               /\ pc[p] = "start_rec" => last'.result = "StreamStartFault"]_vars

\* C9 as claimed: a mutating operation that failed has changed neither the presence
\* of the handle, nor current_mode, nor the Stream (refuted)
C9_FailedOperationChangesNothing ==
    (Failed /\ last.req.op \in MutatingOps) => ~last.dirty

\* C10 as claimed: when release(force=true) returns, without a hardware, file or
\* lock-timeout fault, the session is CLOSED and nothing records (refuted)
C10_ForcedReleaseCloses ==
    (Finished /\ last.req.op = "cleanup" /\ last.req.force
        /\ last.result \notin {"HardwareError", "FileError", "LockTimeout"})
    => (Closed /\ hwRec = {})

\* C11: cleanup(force=False) called while a stream is active fails at once with
\* ActiveStreamError: no call is awaited (no hardware call, no unlink) and camera,
\* current_mode, stream, the device and the image files are as before
C11_ReleaseRefusedWhileStreaming ==
    [][\A p \in Procs :
        (StreamActive /\ Calls(p, "cleanup") /\ ~Called(p).force) =>
            /\ FailsWith(p, "ActiveStreamError")
            /\ SessionUnchanged
            /\ DeviceUnchanged
            /\ images' = images]_vars

\* C11 witness: a non-forced cleanup was refused while the stream is active
C11_Witness ==
    /\ Finished /\ last.req.op = "cleanup" /\ ~last.req.force
    /\ last.result = "ActiveStreamError" /\ StreamActive

\* C12 as claimed: the stop and close calls of a non-forced release (standby cycle
\* or cleanup(force=False)) are never in flight while the stream is active (refuted)
C12_NoReleaseWhileStreaming ==
    \A p \in Procs :
        (pc[p] \in {"cleanup_stop", "cleanup_close"} /\ ~req[p].force) => ~StreamActive

\* C13 as claimed: a file of the image directory that is deleted in a step is at
\* least image_ttl_s old (refuted: cleanup clears the image directory with hls_ttl_s)
C13_NoYoungImageDeleted ==
    [][\A f \in images : f.id \notin FileIds(images') => ~(f.age < image_ttl_s)]_vars

\* C14: when operations are called one after the other: a stop_streaming that
\* succeeds leaves the Stream empty; get_stream_info called while no stream is active
\* returns absent at once; and a start_streaming called while no stream is active
\* (LOCAL, or YOUTUBE with a config) whose awaited calls all succeed does not fail,
\* and when it returns the stream is active
C14_StopThenInfoAbsentThenStart ==
    [][\A p \in Procs :
        /\ (last'.p = p /\ last'.req.op = "stop" /\ last'.result = "ok") => stream' = EmptyStream
        /\ (~StreamActive /\ Calls(p, "info")) => (pc'[p] = "idle" /\ last'.result = "absent")
        /\ (/\ outcome' \notin BadOutcomes
            /\ \/ ~StreamActive /\ Calls(p, "start")
                  /\ (Called(p).mode = "YOUTUBE" => Called(p).cfg # None)
               \/ req[p].op = "start" /\ pc'[p] # pc[p]
                  /\ ~(StreamActive /\ pc[p] = "start_validate"))
           => (pc'[p] = "idle" => (last'.result = "ok" /\ is_active(stream')))]_vars

\* C14 witness: a stop_streaming has just succeeded and the Stream is empty
C14_Witness ==
    Finished /\ last.req.op = "stop" /\ last.result = "ok" /\ last.dirty /\ stream = EmptyStream

\* C15: start_streaming(YOUTUBE) without a config fails at once with the
\* config-required fault: no call is awaited (no hardware call, no validation
\* request) and camera, current_mode, stream and the device are as before
C15_ConfigRequiredBeforeAnyCall ==
    [][\A p \in Procs :
        (Calls(p, "start") /\ Called(p).mode = "YOUTUBE" /\ Called(p).cfg = None) =>
            /\ FailsWith(p, "YoutubeConfigRequiredError")
            /\ SessionUnchanged
            /\ DeviceUnchanged]_vars

\* C15 witness: a start has just failed with the config-required fault
C15_Witness ==
    /\ Finished /\ last.req.op = "start" /\ last.req.mode = "YOUTUBE" /\ last.req.cfg = None
    /\ last.result = "YoutubeConfigRequiredError"

\* C16: start_streaming(YOUTUBE, config) first awaits the validation and nothing
\* else, and when the validator rejects the key the start fails with the validation
\* fault; camera, current_mode, stream and the device are as before in both steps
C16_RejectedKeyChangesNothing ==
    [][\A p \in Procs :
        /\ (Calls(p, "start") /\ Called(p).mode = "YOUTUBE" /\ Called(p).cfg # None) =>
              (pc'[p] = "start_validate" /\ SessionUnchanged /\ DeviceUnchanged)
        /\ (Validated(p) /\ outcome' = "rejected") =>
              /\ FailsWith(p, "YouTubeValidationError")
              /\ SessionUnchanged
              /\ DeviceUnchanged]_vars

\* C16 witness: a start has just failed with the validation fault
C16_Witness ==
    Finished /\ last.req.op = "start" /\ last.result = "YouTubeValidationError" /\ outcome = "rejected"

\* C17: a stop_streaming that enters its guarded section (called with the lock
\* free, or given the lock after queueing) while no stream is active fails with the
\* no-stream-active fault: no call is awaited (no hardware call, no unlink) and
\* camera, current_mode, stream, the device and the image files are as before
C17_StopWithoutStreamFails ==
    [][\A p \in Procs :
        (~StreamActive /\ ((Calls(p, "stop") /\ CanAcquire(lock)) \/ Woken(p, "stop_wait"))) =>
            /\ FailsWith(p, "NoStreamActive")
            /\ SessionUnchanged
            /\ DeviceUnchanged
            /\ images' = images]_vars

\* C17 witness: a stop_streaming has just failed with the no-stream-active fault
\* while no stream is active
C17_Witness ==
    Finished /\ last.req.op = "stop" /\ last.result = "NoStreamActive" /\ ~StreamActive

\* C18 as claimed: a stop_streaming that fails after stop_recording was issued
\* leaves the Stream as it was and the device recording (refuted, already when
\* operations are called one after the other: clearing the stream directory fails
\* after stop_recording)
C18_StopAtomic ==
    [][\A p \in Procs :
        (pc[p] \in {"stop_rec", "stop_clear"} /\ last'.p = p /\ last'.result \in Faults)
            => (stream' = stream /\ camera' \in hwRec')]_vars

\* C19: the Stream is either empty or has mode, url and started_at all present
C19_StreamDescriptor ==
    /\ StreamActive <=> stream.mode \in StreamModes
    /\ StreamActive => (stream.url # None /\ stream.started_at # None)
    /\ ~StreamActive => stream = EmptyStream

\* C19 witness: a start has populated the Stream and is calling get_stream_info
C19_Witness ==
    \E p \in Procs : req[p].op = "start" /\ pc[p] = "info_meta" /\ StreamActive /\ stream.url # None

\* C20: an operation that enters the guarded section of _setup_camera (open called
\* with the lock free and not refused for an active stream, or any caller given the
\* lock after queueing) while the camera is open in the requested mode issues none
\* of _setup_camera's hardware calls, goes on with the manager's handle, and leaves
\* camera, current_mode, stream and the device as before
C20_SetupIdempotent ==
    [][\A p \in Procs :
        (/\ camera # NoHandle
         /\ \/ /\ Calls(p, "open") /\ CanAcquire(lock)
               /\ current_mode = Called(p).mode
               /\ ~(StreamActive /\ Called(p).mode = "PHOTO")
            \/ Woken(p, "setup_wait") /\ current_mode = SetupMode(S, p))
        => /\ pc'[p] \notin SetupCallPcs
           /\ pc'[p] # "idle" => cam'[p] = camera
           /\ pc'[p] = "idle" => (last'.p = p /\ last'.result \notin Faults /\ ~last'.dirty)
           /\ SessionUnchanged
           /\ DeviceUnchanged]_vars

\* C20 witness: an open has just returned without changing anything, the camera
\* being open in the requested mode
C20_Witness ==
    /\ Finished /\ last.req.op = "open" /\ last.result \notin Faults /\ ~last.dirty
    /\ camera # NoHandle /\ current_mode = last.req.mode

\* C21 as claimed: the stop and start calls of _setup_camera's reconfiguration are
\* never in flight while the stream is active (refuted: the active-stream check is
\* made before the caller queues for the lock)
C21_NoReconfigureWhileStreaming ==
    \A p \in Procs : pc[p] \in {"setup_stop", "setup_start"} => ~StreamActive

\* C28 as claimed: get_stream_info, and get_status (also at the end of open_camera),
\* answer absent only when no stream is active (refuted: absent is answered when the
\* Stream is active and the camera is None)
C28_AbsentOnlyWithoutStream ==
    (Finished /\ last.req.op \in {"info", "status", "open"} /\ last.result = "absent")
        => ~StreamActive

\* C29 as claimed: before any operation the session is CLOSED; current_mode is
\* present only if camera is; camera becomes present only when the Picamera2() call
\* of _setup_camera returns, and becomes absent only when a cleanup completes
\* (refuted: a camera.start that returns after a cleanup closed the camera assigns
\* current_mode)
C29_HandleLifecycle ==
    /\ [](nops = 0 => Closed)
    /\ [](current_mode # None => camera # NoHandle)
    /\ [][/\ (camera = NoHandle /\ camera' # NoHandle) =>
                \E p \in Procs : pc[p] = "setup_open" /\ pc'[p] # "setup_open"
           /\ (camera # NoHandle /\ camera' = NoHandle) =>
                \E q \in Procs : /\ pc[q] = "cleanup_close" /\ last'.p = q
                                  /\ last'.req.op \in {"cleanup", "standby"}
                                  /\ last'.result = "ok"]_vars

\* C30 as claimed: open_camera, capture_image, close_camera and start_stream that
\* end with ActiveStreamError answer 409 and have changed nothing (refuted: only
\* close_camera and start_stream catch ActiveStreamError)
C30_ActiveStreamIsConflict ==
    (Finished /\ last.result = "ActiveStreamError"
        /\ last.req.op \in {"open", "capture", "cleanup", "start"})
    => (router_status(last.req.op, last.result) = "409" /\ ~last.dirty)

\* C27 as claimed: a cycle of check_stream_duration called while the stream is
\* active and now - started_at exceeds max_stream_duration_s stops the stream (the
\* stop is issued or queued, and stops the stream when its calls succeed); any
\* other cycle returns at once and changes nothing (refuted: with the stream
\* active and camera None stop_streaming refuses and the cycle only logs)
C27_DurationCheckStops ==
    [][\A p \in Procs :
        /\ (Calls(p, "duration") /\ ~(StreamActive /\ elapsed > max_stream_duration_s))
              => (pc'[p] = "idle" /\ last'.result = "ok" /\ SessionUnchanged /\ DeviceUnchanged)
        /\ (Calls(p, "duration") /\ StreamActive /\ elapsed > max_stream_duration_s)
              => pc'[p] \in {"stop_wait", "stop_rec"}
        /\ (req[p].op = "duration" /\ pc[p] \in {"stop_rec", "stop_clear"}
               /\ pc'[p] = "idle" /\ outcome' \notin BadOutcomes)
              => stream' = EmptyStream]_vars

\* the clear_directory loop of task p runs in this step: from the file it handled
\* last it examines the files of the directory in turn, up to the one whose unlink
\* it issues or to the end
Unlinks(p) ==
    /\ pc[p] = "clear_unlink"
    /\ pc'[p] = "idle" \/ file'[p] # file[p]
    /\ ~(last'.p = p /\ last'.result = "FileError")
Scans(p) == Calls(p, "clear_directory") \/ Unlinks(p)
ScanFrom(p) == IF pc[p] = "idle" THEN NoFile ELSE file[p]
ScanTtl(p) == IF pc[p] = "idle" THEN Called(p).ttl ELSE req[p].ttl
Issues(p) == pc'[p] = "clear_unlink"
Examined(p) == {g \in images' : g.id > ScanFrom(p) /\ (Issues(p) => g.id <= file'[p])}

\* C22 as claimed: clear_directory issues the unlink of an examined file iff ttl is
\* absent or the file's age is greater than ttl (a file whose age equals ttl is
\* retained), and the unlink that returns has removed the file
C22_DeletesIffOlderThanTtl ==
    [][\A p \in Procs :
        /\ Scans(p) => \A g \in Examined(p) :
              (Issues(p) /\ g.id = file'[p]) <=> (ScanTtl(p) = 0 \/ g.age > ScanTtl(p))
        /\ Unlinks(p) => file[p] \notin FileIds(images')]_vars

\* C22 amended: clear_directory issues the unlink of an examined file iff ttl is
\* absent (None or 0) or the file's age is at least ttl (a file whose age equals
\* ttl is deleted), and the unlink that returns has removed the file
C22_DeletesIffNotYounger ==
    [][\A p \in Procs :
        /\ Scans(p) => \A g \in Examined(p) :
              (Issues(p) /\ g.id = file'[p]) <=> (ScanTtl(p) = 0 \/ g.age >= ScanTtl(p))
        /\ Unlinks(p) => file[p] \notin FileIds(images')]_vars

\* C22 witness: with ttl = 60 the unlink of a file of age exactly 60 is in flight
\* while a file of age 59 was examined and skipped
C22_Witness ==
    \E p \in Procs :
        /\ pc[p] = "clear_unlink" /\ req[p].ttl = hls_ttl_s
        /\ \E g \in images : g.id = file[p] /\ g.age = hls_ttl_s
        /\ \E g \in images : g.id < file[p] /\ g.age = hls_ttl_s - 1

\* C23 as claimed: a file that clear_directory removes is not strictly younger than
\* ttl at the moment it is removed, whatever concurrent writers do (refuted: a file
\* written again between the age check and the unlink is removed)
C23_NeverDeletesYoungFile ==
    [][\A p \in Procs : \A g \in images :
        (Unlinks(p) /\ g.id = file[p] /\ g.id \notin FileIds(images'))
            => ~(req[p].ttl # 0 /\ g.age < req[p].ttl)]_vars

\* C24: a fault raised by an invocation of a repeat_task action never ends the
\* loop: the loop is then at its sleep; and unless the lifespan shuts down every
\* action is invoked infinitely often
C24_RunnerIsolation ==
    /\ [](\A p \in Runners : runner[p] # "raised")
    /\ [][\A p \in Runners :
            (runner[p] = "loop" /\ last'.p = p /\ last'.result \in Faults)
                => (runner'[p] = "loop" /\ pc'[p] = "idle")]_vars
    /\ \A p \in Runners :
            <>(phase = "release") \/ ([]<>(cycles[p] = 0) /\ []<>(cycles[p] = 1))

\* C24 witness: an invocation by a repeat_task loop has just failed and the loop
\* is at its sleep
C24_Witness ==
    /\ Finished /\ last.p \in Runners /\ last.result \in Faults
    /\ runner[last.p] = "loop" /\ pc[last.p] = "idle"

\* C25: a repeat_task loop cancelled at its sleep ends there, and a loop that has
\* ended never invokes its action again
C25_RunnerCancellation ==
    [][\A p \in Runners :
        /\ (phase = "serve" /\ phase' = "release" /\ runner[p] = "loop" /\ pc[p] = "idle")
              => (runner'[p] = "cancelled_sleep" /\ pc'[p] = "idle" /\ cycles'[p] = cycles[p])
        /\ runner[p] \in Ended
              => (runner'[p] = runner[p] /\ pc'[p] = "idle" /\ cycles'[p] = cycles[p])]_vars

\* C25 witness: a loop that had invoked its action was cancelled at its sleep
C25_Witness == \E p \in Runners : runner[p] = "cancelled_sleep" /\ cycles[p] = 1

\* C26: once the lifespan has called cleanup(force=True) every repeat_task task has
\* ended with no operation in progress, none invokes its action in or after that
\* step, and camera, current_mode and stream are changed by the forced cleanup only
C26_ShutdownOrdering ==
    /\ [](phase = "release" => \A p \in Runners : runner[p] \in Ended /\ pc[p] = "idle")
    /\ [][/\ phase' = "release" => \A p \in Runners : cycles'[p] = cycles[p]
           /\ (phase = "release" /\ ~SessionUnchanged) => pc[Main] # "idle"]_vars

\* C26 witness: the forced cleanup is closing the camera after a background cycle
\* was cancelled inside its action
C26_Witness ==
    /\ phase = "release" /\ pc[Main] = "cleanup_close"
    /\ \E p \in Runners : runner[p] = "cancelled_call"

\* task p issues the hardware call of await `call` in this step
Issued(p, call) == pc[p] # call /\ pc'[p] = call

\* C31 as claimed: when capture_jpeg issues capture_image, current_mode is PHOTO and
\* the handle it got from _setup_camera is the manager's (refuted: the guard is
\* left between _setup_camera and the capture section, and an operation queued
\* for the lock runs in between)
C31_CaptureSequenceSerialized ==
    [][\A p \in Procs :
        Issued(p, "cap_image") => (current_mode' = "PHOTO" /\ camera' = cam'[p])]_vars

\* C32 as claimed: the step in which a queued acquire ends with the lock-timeout
\* fault leaves the lock locked if another operation held it (refuted: the finally
\* of _camera_lock releases the lock whenever it is locked)
C32_TimeoutKeepsGuardHeld ==
    [][\A p \in Procs :
        (pc[p] \in WaitPcs /\ pc'[p] = "idle" /\ last'.result = "LockTimeout" /\ lock.locked)
            => (lock'.locked /\ ~lock'.headWoken)]_vars

\* C33 as claimed: start_recording is never in flight on a device that is
\* recording, and the start_recording of a start never returns while the Stream is
\* active, so the Stream a start populated is not assigned by another start
\* (refuted: the active-stream check is made before the start queues for the lock)
C33_SingleStart ==
    /\ [](\A p \in Procs : pc[p] = "start_rec" => cam[p] \notin hwRec)
    /\ [][\A p \in Procs :
            (pc[p] = "start_rec" /\ pc'[p] # "start_rec" /\ StreamActive)
                => (last'.p = p /\ last'.result \in Faults /\ stream' = stream)]_vars

\* C34 as claimed: when capture_image, capture_metadata or start_recording is
\* issued, the handle it is called on is the manager's handle and is open (refuted:
\* a cleanup queued for the lock closes the camera between _setup_camera and the
\* section that uses the handle it returned)
C34_NoCallOnClosedHandle ==
    [][\A p \in Procs :
        (Issued(p, "cap_image") \/ Issued(p, "cap_meta") \/ Issued(p, "start_rec"))
            => (cam'[p] = camera' /\ cam'[p] \in hwOpen')]_vars

\* C35 as claimed: stop_streaming never fails with 'No stream active' while the
\* Stream is active (refuted: a cleanup queued behind a start closes the camera
\* and leaves the Stream active)
C35_ActiveStreamCanBeStopped ==
    (Finished /\ last.result = "NoStreamActive") => ~StreamActive

\* C36: a task that waits for the lock always waits for an awaited call of another
\* task or has been woken, and, the awaited calls terminating and the scheduling
\* being fair, every operation eventually returns or fails, whether or not lock
\* timeouts fire
C36_NoGuardDeadlock ==
    /\ [](\A p \in Procs : pc[p] \in WaitPcs =>
            \/ \E q \in Procs \ {p} : pc[q] \in SectionPcs \cup OutsidePcs
            \/ lock.headWoken /\ ~lock.locked)
    /\ \A p \in Procs : (pc[p] # "idle") ~> (pc[p] = "idle")

\* C36 witness: a forced cleanup has stopped the stream, left the guard of
\* stop_streaming and is inside its own guarded section, while another operation
\* waits for the lock
C36_Witness ==
    \E p, q \in Procs :
        /\ req[p].op = "cleanup" /\ req[p].force /\ dirty[p] /\ pc[p] = "cleanup_stop"
        /\ pc[q] \in WaitPcs

====
